---- MODULE Spec2Model ----
(***************************************************************************)
(* Model of the authentication and abuse-detection layer of the Chuck      *)
(* Norris Jokes API: app/middleware.py (request logging middleware and the *)
(* in-memory auth-failure tracker), app/auth.py (API key and admin secret  *)
(* verification) and the two write endpoints of app/main.py.               *)
(***************************************************************************)
EXTENDS Integers, Sequences, FiniteSets, TLC

VARIABLES
    failures,   \* _auth_failures: client_ip -> list of failure timestamps
    clock,      \* the reading time.time() returns
    hist,       \* ghost: every (client_ip, timestamp) ever recorded, never pruned
    adminSecret,\* ADMIN_SECRET, read from the environment at import
    store,      \* the api_keys table: rows in insertion order
    jokes,      \* the texts of the jokes table
    issued,     \* ghost: the raw keys generate_api_key has returned
    minted,     \* ghost: the bodies of the 201 responses of POST /api-keys
    inflight,   \* the requests inside dispatch, awaiting call_next or resuming
    answered,   \* ghost: client_ip -> number of 401/403 the handlers produced
    out         \* what the last request produced: response and log lines

vars == <<failures, clock, hist, adminSecret, store, jokes, issued, minted,
          inflight, answered, out>>

----------------------------------------------------------------------------
(* Program constants, app/middleware.py *)

AUTH_FAILURE_WINDOW == 300
AUTH_FAILURE_THRESHOLD_IP == 10
AUTH_FAILURE_THRESHOLD_GLOBAL == 20

----------------------------------------------------------------------------
(* Bounds of the model *)

\* the clock stops advancing at this reading
MaxClock == 400
\* a failing request is accepted while fewer than this many were recorded
MaxFailures == 21
\* the clock advances only while at most this many failures were recorded
MaxCarry == 2

\* a failing request is accepted while fewer than this many were recorded,
\* when time passes freely
MaxFew == 3

\* amounts by which the clock advances between two requests
ClockSteps == {100, 200, 300}
FloodSteps == {200}

\* a failing request is accepted while fewer than this many were recorded,
\* when the clock may go back
MaxSkewFailures == 4

\* a failing request of the application is accepted while fewer than this
\* many were recorded
MaxAppFailures == 11
\* rows the api_keys table holds at most
MaxKeys == 2
\* requests inside dispatch at the same time
MaxInflight == 2
\* a handler of a concurrent request answers 401/403 while fewer than this
\* many did
MaxAsyncFailures == 11

None == "None"

\* values of ADMIN_SECRET in the environment; "" is the default of os.getenv
AdminSecrets == {"", "X"}
\* keys generate_api_key returns
RawKeys == {"cnj_A", "cnj_B"}
\* a header value with a character outside ASCII (U+00E9)
NonAscii == {"cnj_<U+00E9>"}
\* values of the X-API-Key header; None is no header
Presented == {None, "", "X", "x"} \cup RawKeys \cup NonAscii
\* payload.name and joke.text of the requests
Names == {"my-app", "other-app"}
Texts == {"Chuck Norris can divide by zero."}
\* transport peers of the application's requests
AppPeers == {"10.0.0.1"}
\* values str(uuid.uuid4()) returns
Uuids == {"uuid-1", "uuid-2", "uuid-3"}

\* X-Forwarded-For header values and transport peers of the requests
ForwardedFor == {None, "10.0.0.1", "10.0.0.1, 10.0.0.9"}
Peers == {None, "10.0.0.1"}
\* X-Forwarded-For header values of concurrent requests
AsyncForwardedFor == {None}
\* what the await of call_next raises: a failure of the handler, or the
\* cancellation of the request
Exceptions == {"RuntimeError", "CancelledError"}

----------------------------------------------------------------------------
(* Helpers *)

RECURSIVE SumLen(_, _)
SumLen(f, keys) ==
    IF keys = {} THEN 0
    ELSE LET k == CHOOSE x \in keys : TRUE
         IN  Len(f[k]) + SumLen(f, keys \ {k})

RECURSIVE SumOfCounts(_, _)
SumOfCounts(f, keys) ==
    IF keys = {} THEN 0
    ELSE LET k == CHOOSE x \in keys : TRUE
         IN  f[k] + SumOfCounts(f, keys \ {k})

\* _auth_failures[client_ip] on a defaultdict(list): a missing key reads as []
\* and is inserted
Touch(f, ip) == IF ip \in DOMAIN f THEN f ELSE f @@ (ip :> <<>>)

\* a tracker that never drops a timestamp
PruneNothing(times, cutoff) == times

\* [t for t in times if t > cutoff]
Prune(times, cutoff) == SelectSeq(times, LAMBDA t : t > cutoff)

\* a per-IP check that fires on the crossing call only
BruteForceOnce(times) == Len(times) = AUTH_FAILURE_THRESHOLD_IP

\* a per-IP check that needs one failure more
BruteForceStrict(times) == Len(times) > AUTH_FAILURE_THRESHOLD_IP

\* the per-IP check: len(_auth_failures[client_ip]) >= AUTH_FAILURE_THRESHOLD_IP
BruteForce(times) == Len(times) >= AUTH_FAILURE_THRESHOLD_IP

\* sum(len(times) for ip, times in items() if any(t > cutoff for t in times))
TotalFailures(f, cutoff) ==
    SumLen(f, {ip \in DOMAIN f : \E i \in 1..Len(f[ip]) : f[ip][i] > cutoff})

\* a spray check that needs one failure more
SprayAttackStrict(total) == total > AUTH_FAILURE_THRESHOLD_GLOBAL

SprayAttack(total) == total >= AUTH_FAILURE_THRESHOLD_GLOBAL

\* a record call that loses its append when the sequence already holds a
\* timestamp, as an update computed from a stale read would
TrackAuthFailureLossy(f, client_ip, now) ==
    LET cutoff == now - AUTH_FAILURE_WINDOW
        f0 == Touch(f, client_ip)
        kept == Prune(f0[client_ip], cutoff)
        f1 == [f0 EXCEPT ![client_ip] = IF Len(kept) > 0 THEN kept
                                        ELSE Append(kept, now)]
    IN  [failures |-> f1, alerts |-> << >>,
         total |-> TotalFailures(f1, cutoff), cutoff |-> cutoff]

\* a record call that prunes the sequence of every source and forgets the
\* sources left without a timestamp
TrackAuthFailureSweep(f, client_ip, now) ==
    LET cutoff == now - AUTH_FAILURE_WINDOW
        f0 == Touch(f, client_ip)
        f1 == [ip \in DOMAIN f0 |->
                  IF ip = client_ip THEN Append(Prune(f0[ip], cutoff), now)
                  ELSE Prune(f0[ip], cutoff)]
        f2 == [ip \in {k \in DOMAIN f1 : Len(f1[k]) > 0} |-> f1[ip]]
    IN  [failures |-> f2, alerts |-> << >>,
         total |-> SumLen(f2, DOMAIN f2), cutoff |-> cutoff]

\* a record call that appends first and then prunes against the latest
\* timestamp it holds, as if readings never decreased
TrackAuthFailureMonotonic(f, client_ip, now) ==
    LET f0 == Touch(f, client_ip)
        all == Append(f0[client_ip], now)
        latest == CHOOSE t \in {all[i] : i \in 1..Len(all)} :
                      \A i \in 1..Len(all) : all[i] <= t
        cutoff == latest - AUTH_FAILURE_WINDOW
        f1 == [f0 EXCEPT ![client_ip] = Prune(all, cutoff)]
    IN  [failures |-> f1, alerts |-> << >>,
         total |-> TotalFailures(f1, cutoff), cutoff |-> cutoff]

\* _track_auth_failure(client_ip) at time.time() = now: the new tracker and the
\* critical log lines it emits, in order
TrackAuthFailure(f, client_ip, now) ==
    LET cutoff == now - AUTH_FAILURE_WINDOW
        f0 == Touch(f, client_ip)
        f1 == [f0 EXCEPT ![client_ip] = Append(Prune(f0[client_ip], cutoff), now)]
        brute ==
            IF BruteForce(f1[client_ip])
            THEN << [event_type |-> "brute_force_detected",
                     client_ip |-> client_ip,
                     failure_count |-> Len(f1[client_ip]),
                     window_seconds |-> AUTH_FAILURE_WINDOW] >>
            ELSE << >>
        total == TotalFailures(f1, cutoff)
        spray ==
            IF SprayAttack(total)
            THEN << [event_type |-> "spray_attack_detected",
                     total_failures |-> total,
                     window_seconds |-> AUTH_FAILURE_WINDOW] >>
            ELSE << >>
    IN  [failures |-> f1, alerts |-> brute \o spray, total |-> total, cutoff |-> cutoff]

\* request.headers.get("X-Forwarded-For",
\*                     request.client.host if request.client else "unknown")
ClientIp(xff, peer) ==
    IF xff # None THEN xff ELSE IF peer # None THEN peer ELSE "unknown"

\* the event_type and level of the request's log record
Classify(status) ==
    IF status \in {401, 403} THEN [event_type |-> "auth_failure", level |-> "WARNING"]
    ELSE IF status >= 500 THEN [event_type |-> "server_error", level |-> "ERROR"]
    ELSE IF status >= 400 THEN [event_type |-> "http_request", level |-> "WARNING"]
    ELSE [event_type |-> "http_request", level |-> "INFO"]

\* a dispatch that records every response
TracksEvery(status) == TRUE

\* a dispatch that tracks the missing credential only
TracksFailure401(status) == status = 401

\* the statuses on which dispatch calls _track_auth_failure
TracksFailure(status) == status \in {401, 403}

----------------------------------------------------------------------------
(* app/auth.py *)

\* hash_api_key: the SHA-256 hex digest, one-way and collision-free on the
\* keys of the model; a digest is never equal to a raw key
hash_api_key(key) == "sha256(" \o key \o ")"

\* what secrets.compare_digest accepts for str arguments: ASCII only
IsAscii(s) == s \notin NonAscii

\* secrets.compare_digest(a, b) on two str: TypeError unless both are ASCII,
\* otherwise exact equality
compare_digest(a, b) ==
    IF IsAscii(a) /\ IsAscii(b) THEN [raised |-> None, equal |-> a = b]
    ELSE [raised |-> "TypeError", equal |-> FALSE]

\* "if not api_key": the header is absent (None) or empty
Missing(api_key) == api_key = None \/ api_key = ""

HTTPException(status, detail) ==
    [ok |-> FALSE, raised |-> None, status |-> status, detail |-> detail, key_id |-> 0]

Unhandled(exc) ==
    [ok |-> FALSE, raised |-> exc, status |-> 500, detail |-> None, key_id |-> 0]

Verified(key_id) ==
    [ok |-> TRUE, raised |-> None, status |-> 200, detail |-> None, key_id |-> key_id]

\* a query without the is_active filter
AnyRows(db, key_hash) == {i \in 1..Len(db) : db[i].key_hash = key_hash}

\* db.query(APIKey).filter(key_hash == key_hash, is_active.is_(True)): the
\* positions of the matching rows
ActiveRows(db, key_hash) ==
    {i \in 1..Len(db) : db[i].key_hash = key_hash /\ db[i].is_active}

\* .first()
First(rows) == CHOOSE i \in rows : \A j \in rows : i <= j

\* an authenticator that tells a deactivated key from an unknown one
VerifyApiKeyLeaky(api_key, db) ==
    IF Missing(api_key)
    THEN HTTPException(401, "Missing API key. Provide X-API-Key header.")
    ELSE LET rows == ActiveRows(db, hash_api_key(api_key))
         IN  IF rows # {} THEN Verified(db[First(rows)].id)
             ELSE IF AnyRows(db, hash_api_key(api_key)) # {}
             THEN HTTPException(403, "Deactivated API key.")
             ELSE HTTPException(403, "Invalid or deactivated API key.")

\* verify_api_key(api_key, db)
verify_api_key(api_key, db) ==
    IF Missing(api_key)
    THEN HTTPException(401, "Missing API key. Provide X-API-Key header.")
    ELSE LET rows == ActiveRows(db, hash_api_key(api_key))
         IN  IF rows = {}
             THEN HTTPException(403, "Invalid or deactivated API key.")
             ELSE Verified(db[First(rows)].id)

\* an admin gate that looks for the header before the configuration
VerifyAdminMissingFirst(api_key, secret) ==
    IF Missing(api_key)
    THEN HTTPException(401, "Missing admin secret. Provide X-API-Key header.")
    ELSE IF secret = ""
    THEN HTTPException(503, "Admin secret not configured on server.")
    ELSE LET cmp == compare_digest(api_key, secret)
         IN  IF cmp.raised # None THEN Unhandled(cmp.raised)
             ELSE IF ~cmp.equal THEN HTTPException(403, "Invalid admin secret.")
             ELSE Verified(0)

\* verify_admin_secret(api_key) with ADMIN_SECRET = secret
verify_admin_secret(api_key, secret) ==
    IF secret = ""
    THEN HTTPException(503, "Admin secret not configured on server.")
    ELSE IF Missing(api_key)
    THEN HTTPException(401, "Missing admin secret. Provide X-API-Key header.")
    ELSE LET cmp == compare_digest(api_key, secret)
         IN  IF cmp.raised # None THEN Unhandled(cmp.raised)
             ELSE IF ~cmp.equal THEN HTTPException(403, "Invalid admin secret.")
             ELSE Verified(0)

----------------------------------------------------------------------------
(* app/middleware.py: RequestLoggingMiddleware.dispatch *)

\* Statuses the wrapped handler (call_next) answers with
Statuses == {200, 201, 401, 403, 404, 409, 422, 429, 500, 503}
FloodStatuses == {200, 403}

\* str(uuid.uuid4()): an identifier no live request carries; the identifiers
\* are opaque, so the model takes one fixed fresh identifier
uuid4(live) == CHOOSE u \in Uuids \ live : TRUE

\* the identifiers of the requests inside dispatch
LiveIds == {r.req.request_id : r \in inflight}

\* the request as dispatch holds it after its first lines: request_id is
\* request.state.request_id
Request(endpoint, xff, peer, presented) ==
    [endpoint |-> endpoint, xff |-> xff, peer |-> peer, presented |-> presented,
     request_id |-> uuid4(LiveIds)]

\* what call_next produces: a response, or an exception that escapes the handler
Result(raised, status, detail, key_id, api_key, name) ==
    [raised |-> raised, status |-> status, detail |-> detail, key_id |-> key_id,
     api_key |-> api_key, name |-> name]

NoRequest ==
    [endpoint |-> None, presented |-> None, raised |-> None, status |-> 0,
     detail |-> None, key_id |-> 0, api_key |-> None, name |-> None,
     client_ip |-> None, logged |-> 0, event_type |-> None, level |-> None,
     tracked |-> 0, total_failures |-> 0, alerts |-> << >>,
     entered |-> None, request_id |-> None, header |-> None]

\* a dispatch that skips the record of a normal completion
LogCallsNoInfo(status) ==
    IF status \in {401, 403} \/ status >= 400 THEN 1 ELSE 0

\* the logger calls of the if/elif/else on response.status_code that write the
\* log record of the request: one in every branch
LogCalls(status) ==
    IF status \in {401, 403} THEN 1
    ELSE IF status >= 500 THEN 1
    ELSE IF status >= 400 THEN 1
    ELSE 1

\* a dispatch that answers 429 once the source is over the per-IP threshold
ResponseBreaker(res, f, client_ip) ==
    IF client_ip \in DOMAIN f /\ BruteForce(f[client_ip])
    THEN [res EXCEPT !.status = 429, !.detail = "Too many failures.",
                     !.api_key = None, !.name = None, !.key_id = 0]
    ELSE res

\* "return response": the response of call_next, whatever the tracker f holds
ResponseOf(res, f, client_ip) == res

\* a dispatch that stamps the header on successful responses only
StampedOnSuccess(status, request_id) ==
    IF status < 400 THEN request_id ELSE None

\* response.headers["X-Request-ID"] = request_id
Stamped(status, request_id) == request_id

\* dispatch around one request: the log record of the request, the tracker
\* call on 401/403, and the response handed back; an exception of call_next
\* leaves dispatch at once
DispatchResponse(req, res) ==
    LET client_ip == ClientIp(req.xff, req.peer)
        cls == Classify(res.status)
        trk == TrackAuthFailure(failures, client_ip, clock)
        back == ResponseOf(res, IF TracksFailure(res.status) THEN trk.failures
                                ELSE failures, client_ip)
        seen == [NoRequest EXCEPT !.endpoint = req.endpoint,
                                  !.presented = req.presented,
                                  !.entered = req.request_id,
                                  !.client_ip = client_ip]
        raised == [seen EXCEPT !.raised = res.raised, !.status = res.status]
        returned == [seen EXCEPT !.status = back.status,
                                 !.detail = back.detail,
                                 !.key_id = back.key_id,
                                 !.api_key = back.api_key,
                                 !.name = back.name,
                                 !.logged = LogCalls(res.status),
                                 !.request_id = req.request_id,
                                 !.event_type = cls.event_type,
                                 !.level = cls.level,
                                 !.header = Stamped(back.status, req.request_id)]
    IN  IF res.raised # None
        THEN /\ UNCHANGED <<failures, hist>>
             /\ out' = raised
        ELSE IF TracksFailure(res.status)
        THEN /\ failures' = trk.failures
             /\ hist' = [Touch(hist, client_ip) EXCEPT ![client_ip] = Append(@, clock)]
             /\ out' = [returned EXCEPT !.tracked = 1,
                                         !.total_failures = trk.total,
                                         !.alerts = trk.alerts]
        ELSE /\ UNCHANGED <<failures, hist>>
             /\ out' = returned

Recorded == SumLen(hist, DOMAIN hist)

\* RequestLoggingMiddleware.dispatch around any handler: call_next answers with
\* some status
Dispatch(xff, peer, status) ==
    /\ TracksFailure(status) => Recorded < MaxFew
    /\ DispatchResponse(Request(None, xff, peer, None),
                        Result(None, status, None, 0, None, None))
    /\ UNCHANGED <<clock, adminSecret, store, jokes, issued, minted>>
    /\ UNCHANGED <<inflight, answered>>

\* time passes between two requests
Tick(d) ==
    /\ clock + d <= MaxClock
    /\ clock' = clock + d
    /\ out' = NoRequest
    /\ UNCHANGED <<failures, hist, adminSecret, store, jokes, issued, minted>>
    /\ UNCHANGED <<inflight, answered>>

\* the same middleware under a flood of failing requests
DispatchFlood(xff, peer, status) ==
    /\ TracksFailure(status) => Recorded < MaxFailures
    /\ DispatchResponse(Request(None, xff, peer, None),
                        Result(None, status, None, 0, None, None))
    /\ UNCHANGED <<clock, adminSecret, store, jokes, issued, minted>>
    /\ UNCHANGED <<inflight, answered>>

TickFlood(d) ==
    /\ Recorded <= MaxCarry
    /\ Tick(d)

\* Statuses of the requests made while the clock may go back
SkewStatuses == {200, 403}

\* the same middleware on a host whose wall clock is stepped
DispatchSkew(xff, peer, status) ==
    /\ TracksFailure(status) => Recorded < MaxSkewFailures
    /\ DispatchResponse(Request(None, xff, peer, None),
                        Result(None, status, None, 0, None, None))
    /\ UNCHANGED <<clock, adminSecret, store, jokes, issued, minted>>
    /\ UNCHANGED <<inflight, answered>>

\* time.time() is the wall clock: between two requests it is set back by d
ClockBack(d) ==
    /\ clock - d >= 0
    /\ clock' = clock - d
    /\ out' = NoRequest
    /\ UNCHANGED <<failures, hist, adminSecret, store, jokes, issued, minted>>
    /\ UNCHANGED <<inflight, answered>>

----------------------------------------------------------------------------
(* Concurrent requests: dispatch is a coroutine on the event loop; it yields *)
(* at "await call_next(request)" alone, so the lines before it and the lines  *)
(* after it each run without interleaving                                    *)

\* Statuses the handlers of concurrent requests answer with
AsyncStatuses == {200, 401, 403, 404, 422, 500}

Answered == SumOfCounts(answered, DOMAIN answered)

\* dispatch up to the await: request_id, client_ip, start_time
Enter(xff, peer) ==
    /\ Cardinality(inflight) < MaxInflight
    /\ Uuids \ (LiveIds \cup {out.entered}) # {}
    /\ LET req == [Request(None, xff, peer, None) EXCEPT
                      !.request_id = uuid4(LiveIds \cup {out.entered})]
       IN  inflight' = inflight \cup {[req |-> req, pc |-> "running", status |-> 0]}
    /\ UNCHANGED <<failures, clock, hist, adminSecret, store, jokes, issued, minted>>
    /\ UNCHANGED <<answered, out>>

\* the handler of a request in flight produces its response; dispatch is
\* resumed by the event loop later
HandlerReturns(r, status) ==
    /\ r \in inflight
    /\ r.pc = "running"
    /\ TracksFailure(status) => Answered < MaxAsyncFailures
    /\ inflight' = (inflight \ {r}) \cup {[r EXCEPT !.pc = "returned", !.status = status]}
    /\ answered' = IF TracksFailure(status)
                   THEN LET ip == ClientIp(r.req.xff, r.req.peer)
                            a == IF ip \in DOMAIN answered THEN answered
                                 ELSE answered @@ (ip :> 0)
                        IN  [a EXCEPT ![ip] = @ + 1]
                   ELSE answered
    /\ UNCHANGED <<failures, clock, hist, adminSecret, store, jokes, issued, minted>>
    /\ UNCHANGED out

\* dispatch resumes after the await with the response: the rest of dispatch
Resume(r) ==
    /\ r \in inflight
    /\ r.pc = "returned"
    /\ DispatchResponse(r.req, Result(None, r.status, None, 0, None, None))
    /\ inflight' = inflight \ {r}
    /\ UNCHANGED <<clock, adminSecret, store, jokes, issued, minted, answered>>

\* the await raises: the handler failed with exc, or the request was cancelled
\* (CancelledError); the exception leaves dispatch
AwaitRaises(r, exc) ==
    /\ r \in inflight
    /\ r.pc = "running"
    /\ DispatchResponse(r.req, Result(exc, 0, None, 0, None, None))
    /\ inflight' = inflight \ {r}
    /\ UNCHANGED <<clock, adminSecret, store, jokes, issued, minted, answered>>

----------------------------------------------------------------------------
(* app/main.py: the two write endpoints behind the middleware *)

\* POST /jokes: create_joke, behind Depends(verify_api_key)
create_joke(req, text) ==
    LET auth == verify_api_key(req.presented, store)
    IN  IF ~auth.ok
        THEN /\ DispatchResponse(req, Result(auth.raised, auth.status, auth.detail,
                                             0, None, None))
             /\ UNCHANGED jokes
        ELSE IF text \in jokes
        THEN /\ DispatchResponse(req, Result(None, 409, "This joke already exists.",
                                             auth.key_id, None, None))
             /\ UNCHANGED jokes
        ELSE /\ DispatchResponse(req, Result(None, 201, None, auth.key_id, None, None))
             /\ jokes' = jokes \cup {text}

\* a mint that stores the key as it is
AddKeyRaw(db, raw_key, name) ==
    Append(db, [id |-> Len(db) + 1, key_hash |-> raw_key,
                name |-> name, is_active |-> TRUE])

\* a mint whose credential starts deactivated
AddKeyInactive(db, raw_key, name) ==
    Append(db, [id |-> Len(db) + 1, key_hash |-> hash_api_key(raw_key),
                name |-> name, is_active |-> FALSE])

\* APIKey(key_hash=hash_api_key(raw_key), name=payload.name); db.add; db.commit
AddKey(db, raw_key, name) ==
    Append(db, [id |-> Len(db) + 1, key_hash |-> hash_api_key(raw_key),
                name |-> name, is_active |-> TRUE])

\* POST /api-keys: create_api_key, behind Depends(verify_admin_secret);
\* raw_key is what generate_api_key returns
create_api_key(req, name, raw_key) ==
    LET gate == verify_admin_secret(req.presented, adminSecret)
    IN  IF ~gate.ok
        THEN /\ DispatchResponse(req, Result(gate.raised, gate.status, gate.detail,
                                             0, None, None))
             /\ UNCHANGED <<store, issued, minted>>
        ELSE /\ DispatchResponse(req, Result(None, 201, None, 0, raw_key, name))
             /\ store' = AddKey(store, raw_key, name)
             /\ issued' = issued \cup {raw_key}
             /\ minted' = minted \cup {[api_key |-> raw_key, name |-> name]}

PostJokes(peer, presented, text) ==
    /\ Recorded < MaxAppFailures
    /\ create_joke(Request("POST /jokes", None, peer, presented), text)
    /\ UNCHANGED <<clock, adminSecret, store, issued, minted>>
    /\ UNCHANGED <<inflight, answered>>

\* generate_api_key never returns a key it returned before: the keys are 32
\* random bytes
PostApiKeys(peer, presented, name, raw_key) ==
    /\ Recorded < MaxAppFailures
    /\ raw_key \notin issued
    /\ create_api_key(Request("POST /api-keys", None, peer, presented), name, raw_key)
    /\ UNCHANGED <<clock, adminSecret, jokes>>
    /\ UNCHANGED <<inflight, answered>>

\* the operator revokes a key in the database: is_active becomes false
Deactivate(i) ==
    /\ i \in 1..Len(store)
    /\ store[i].is_active
    /\ store' = [store EXCEPT ![i].is_active = FALSE]
    /\ out' = NoRequest
    /\ UNCHANGED <<failures, clock, hist, adminSecret, jokes, issued, minted>>
    /\ UNCHANGED <<inflight, answered>>

----------------------------------------------------------------------------
(* Specifications *)

\* the process after import, with ADMIN_SECRET = secret in the environment
Start(secret) ==
    /\ failures = << >>
    /\ hist = << >>
    /\ clock = 0
    /\ adminSecret = secret
    /\ store = << >>
    /\ jokes = {}
    /\ issued = {}
    /\ minted = {}
    /\ inflight = {}
    /\ answered = << >>
    /\ out = NoRequest

Init == Start("")

Next ==
    \/ \E xff \in ForwardedFor, peer \in Peers, status \in Statuses :
            Dispatch(xff, peer, status)
    \/ \E d \in ClockSteps : Tick(d)

\* the middleware around any handler, time passing freely
Spec == Init /\ [][Next]_vars

NextFlood ==
    \/ \E xff \in ForwardedFor, peer \in Peers, status \in FloodStatuses :
            DispatchFlood(xff, peer, status)
    \/ \E d \in FloodSteps : TickFlood(d)

\* the middleware under a flood of failing requests
SpecFlood == Init /\ [][NextFlood]_vars

InitApp == \E secret \in AdminSecrets : Start(secret)

NextApp ==
    \/ \E peer \in AppPeers, presented \in Presented, text \in Texts :
            PostJokes(peer, presented, text)
    \/ \E peer \in AppPeers, presented \in Presented, name \in Names,
          raw_key \in RawKeys :
            PostApiKeys(peer, presented, name, raw_key)
    \/ \E i \in 1..MaxKeys : Deactivate(i)

\* the application: both write endpoints behind the middleware
SpecApp == InitApp /\ [][NextApp]_vars

NextAsync ==
    \/ \E xff \in AsyncForwardedFor, peer \in Peers : Enter(xff, peer)
    \/ \E r \in inflight, status \in AsyncStatuses : HandlerReturns(r, status)
    \/ \E r \in inflight : Resume(r)
    \/ \E r \in inflight, exc \in Exceptions : AwaitRaises(r, exc)

\* the middleware around any handler, requests overlapping
SpecAsync == Init /\ [][NextAsync]_vars

----------------------------------------------------------------------------
(* Properties of the failure tracker *)

\* the alerts of the last request, by kind
BruteAlerts == SelectSeq(out.alerts, LAMBDA a : a.event_type = "brute_force_detected")
SprayAlerts == SelectSeq(out.alerts, LAMBDA a : a.event_type = "spray_attack_detected")

\* the record calls made for ip so far whose reading is later than cutoff
RecordedAfter(ip, cutoff) ==
    IF ip \in DOMAIN hist
    THEN Cardinality({i \in 1..Len(hist[ip]) : hist[ip][i] > cutoff})
    ELSE 0

\* the record calls made for ip so far whose reading is cutoff or later
RecordedSince(ip, cutoff) ==
    IF ip \in DOMAIN hist
    THEN Cardinality({i \in 1..Len(hist[ip]) : hist[ip][i] >= cutoff})
    ELSE 0

\* the stored timestamps of ip that are later than cutoff / cutoff or later
StoredAfter(ip, cutoff) ==
    Cardinality({i \in 1..Len(failures[ip]) : failures[ip][i] > cutoff})
StoredSince(ip, cutoff) ==
    Cardinality({i \in 1..Len(failures[ip]) : failures[ip][i] >= cutoff})

RECURSIVE SumOver(_, _, _)
SumOver(Count(_, _), keys, cutoff) ==
    IF keys = {} THEN 0
    ELSE LET k == CHOOSE x \in keys : TRUE
         IN  Count(k, cutoff) + SumOver(Count, keys \ {k}, cutoff)

\* the cutoff of the record call the last request made (out is cleared when the
\* clock advances, so that call read the current clock)
LastCutoff == clock - AUTH_FAILURE_WINDOW

\* C1: per-source threshold. After a record call for source s, counting the
\* record calls made for s since the empty tracker that lie within the window
\* of this call: fewer than T_ip of them give no brute-force alert, and exactly
\* T_ip of them give exactly one brute-force alert, for s, with failure_count
\* T_ip.
C1_PerSourceThreshold ==
    out.tracked = 1 =>
        LET n == RecordedAfter(out.client_ip, LastCutoff)
        IN  /\ n < AUTH_FAILURE_THRESHOLD_IP => Len(BruteAlerts) = 0
            /\ n = AUTH_FAILURE_THRESHOLD_IP =>
                  /\ Len(BruteAlerts) = 1
                  /\ BruteAlerts[1].client_ip = out.client_ip
                  /\ BruteAlerts[1].failure_count = AUTH_FAILURE_THRESHOLD_IP

\* C1 witness: the tenth failure of a source within one window, some of them
\* recorded at an earlier clock reading, raised its alert
C1_Witness ==
    /\ out.tracked = 1
    /\ RecordedAfter(out.client_ip, LastCutoff) = AUTH_FAILURE_THRESHOLD_IP
    /\ hist[out.client_ip][1] < clock
    /\ Len(BruteAlerts) = 1

\* every failure recorded so far lies within the window of the last call and
\* every source is below the per-source threshold
SpreadInOneWindow ==
    \A ip \in DOMAIN hist :
        /\ Len(hist[ip]) < AUTH_FAILURE_THRESHOLD_IP
        /\ \A i \in 1..Len(hist[ip]) : hist[ip][i] > LastCutoff

\* C2: aggregate threshold. After a record call, when all failures recorded so
\* far lie in one window and every source is below T_ip: fewer than T_global of
\* them give no spray alert, and exactly T_global give exactly one spray alert
\* and no brute-force alert.
C2_AggregateThreshold ==
    (out.tracked = 1 /\ SpreadInOneWindow) =>
        /\ Recorded < AUTH_FAILURE_THRESHOLD_GLOBAL => Len(SprayAlerts) = 0
        /\ Recorded = AUTH_FAILURE_THRESHOLD_GLOBAL =>
              /\ Len(SprayAlerts) = 1
              /\ SprayAlerts[1].total_failures = AUTH_FAILURE_THRESHOLD_GLOBAL
              /\ Len(BruteAlerts) = 0

\* C2 witness: the twentieth failure, spread over three sources
C2_Witness ==
    /\ out.tracked = 1
    /\ SpreadInOneWindow
    /\ Recorded = AUTH_FAILURE_THRESHOLD_GLOBAL
    /\ Cardinality(DOMAIN hist) = 3
    /\ Len(SprayAlerts) = 1

\* C3: window expiry for the recording source. After a record call for s at
\* time now, no stored timestamp of s is older than now - W, no more
\* timestamps are stored for s than record calls were made for s at now - W or
\* later, and when every earlier call for s is older than now - W the sequence
\* of s holds the new timestamp alone.
C3_WindowExpiry ==
    out.tracked = 1 =>
        LET s == out.client_ip
        IN  /\ \A i \in 1..Len(failures[s]) : failures[s][i] >= LastCutoff
            /\ Len(failures[s]) <= RecordedSince(s, LastCutoff)
            /\ RecordedSince(s, LastCutoff) = 1 => failures[s] = <<clock>>

\* C3 witness: a source with expired failures fails again and restarts at 1
C3_Witness ==
    /\ out.tracked = 1
    /\ Len(hist[out.client_ip]) >= 2
    /\ failures[out.client_ip] = <<clock>>

\* C4: the aggregate counts the timestamps within the window only. After a
\* record call, total_failures is the number of stored timestamps, over all
\* known sources, that are within the window of that call's cutoff (whichever
\* way a timestamp exactly at the cutoff is read).
C4_AggregateOverPruned ==
    out.tracked = 1 =>
        /\ out.total_failures >= SumOver(StoredAfter, DOMAIN failures, LastCutoff)
        /\ out.total_failures <= SumOver(StoredSince, DOMAIN failures, LastCutoff)

\* C5: a request answered 401 or 403 makes exactly one record call, for its
\* source, and a request answered anything else leaves the tracker as it was.
C5_RecordOnlyOnAuthFailure ==
    [][ IF out'.logged = 1 /\ out'.status \in {401, 403}
        THEN /\ out'.tracked = 1
             /\ out'.client_ip \in DOMAIN failures'
             /\ failures'[out'.client_ip] # << >>
             /\ failures'[out'.client_ip][Len(failures'[out'.client_ip])] = clock
             /\ Len(hist'[out'.client_ip]) = RecordedSince(out'.client_ip, 0) + 1
             /\ \A ip \in DOMAIN failures' \ {out'.client_ip} :
                    ip \in DOMAIN failures /\ failures'[ip] = failures[ip]
        ELSE /\ failures' = failures
             /\ hist' = hist
             /\ out'.tracked = 0 ]_vars

\* C5 witness: a request answered 403 made the second record call of its source
C5_Witness ==
    /\ out.status = 403
    /\ out.tracked = 1
    /\ Len(failures[out.client_ip]) = 2

----------------------------------------------------------------------------
(* Properties of the authenticator and the admin gate *)

\* the rows of db whose fingerprint is that of the presented key
Matching(db, presented) ==
    {i \in 1..Len(db) : db[i].key_hash = hash_api_key(presented)}

\* C6: verify_api_key, for every presented value and every store: absent or
\* empty gives 401; otherwise it succeeds, with the matching credential,
\* exactly when the store holds an active credential whose fingerprint is the
\* hash of the presented value; everything else gives 403. POST /jokes answers
\* accordingly.
C6_VerifyApiKey ==
    /\ \A p \in Presented :
        LET r == verify_api_key(p, store)
            active == {i \in Matching(store, p) : store[i].is_active}
        IN  /\ r.raised = None
            /\ (p = None \/ p = "") => (~r.ok /\ r.status = 401)
            /\ (p # None /\ p # "") =>
                  /\ r.ok <=> active # {}
                  /\ r.ok => \E i \in active : store[i].id = r.key_id
                  /\ ~r.ok => r.status = 403
    /\ out.endpoint = "POST /jokes" =>
        LET r == verify_api_key(out.presented, store)
        IN  IF r.ok THEN out.status \in {201, 409} /\ out.key_id = r.key_id
            ELSE out.status = r.status /\ out.detail = r.detail

\* C6 witness: a request with the key of an active credential was accepted
\* while the store also holds a deactivated credential
C6_Witness ==
    /\ out.endpoint = "POST /jokes"
    /\ out.status = 201
    /\ out.presented \in RawKeys
    /\ \E i \in 1..Len(store) : ~store[i].is_active
    /\ \E i \in 1..Len(store) : store[i].is_active /\ store[i].id = out.key_id

\* db without its row i
RemoveRow(db, i) == SubSeq(db, 1, i - 1) \o SubSeq(db, i + 1, Len(db))

\* C7: information hiding. For a presented key whose credential is in the
\* store but deactivated, verify_api_key fails exactly as it does on the store
\* without that credential: same status 403, same message.
C7_NoAccountLeak ==
    \A p \in Presented \ {None, ""} :
        \A i \in Matching(store, p) :
            ~store[i].is_active =>
                LET with == verify_api_key(p, store)
                    without == verify_api_key(p, RemoveRow(store, i))
                IN  /\ ~with.ok
                    /\ with = without
                    /\ with.status = 403

\* C7 witness: the key of a deactivated credential was presented and refused
C7_Witness ==
    /\ out.endpoint = "POST /jokes"
    /\ out.status = 403
    /\ \E i \in Matching(store, out.presented) : ~store[i].is_active

\* C8: with ADMIN_SECRET unset or empty, verify_admin_secret fails with 503
\* whatever is presented, and no mint request succeeds.
C8_AdminNotConfigured ==
    adminSecret = "" =>
        /\ \A p \in Presented :
              LET r == verify_admin_secret(p, adminSecret)
              IN  ~r.ok /\ r.raised = None /\ r.status = 503
        /\ out.endpoint = "POST /api-keys" => out.status = 503
        /\ store = << >>

\* C8 witness: a mint request without the header was answered 503
C8_Witness ==
    /\ adminSecret = ""
    /\ out.endpoint = "POST /api-keys"
    /\ out.presented = None
    /\ out.status = 503
    /\ out.tracked = 0

\* C9: with a configured secret, verify_admin_secret answers the value a mint
\* request presents with 401 when it is absent (or empty), succeeds exactly on
\* the secret itself, and answers 403 to every other presented value.
C9_AdminGate ==
    (adminSecret # "" /\ out.endpoint = "POST /api-keys") =>
        LET p == out.presented
            r == verify_admin_secret(p, adminSecret)
        IN  /\ (p = None \/ p = "") => (~r.ok /\ r.status = 401)
            /\ r.ok <=> p = adminSecret
            /\ (p # None /\ p # "" /\ p # adminSecret) =>
                  (r.raised = None /\ r.status = 403)

\* C10: minting is gated. With a configured secret, a mint request is answered
\* 401 without the header, 403 with a wrong value and 201 with the secret, and
\* the store holds a credential more exactly after a request answered 201.
C10_MintGated ==
    (adminSecret # "" /\ out.endpoint = "POST /api-keys") =>
        /\ (out.presented = None \/ out.presented = "") => out.status = 401
        /\ out.presented = adminSecret => out.status = 201
        /\ (out.presented # None /\ out.presented # ""
              /\ out.presented # adminSecret) => out.status = 403
        /\ out.status # 201 => out.api_key = None
        /\ Len(store) = Cardinality(issued)

NextSkew ==
    \/ \E xff \in ForwardedFor, peer \in Peers, status \in SkewStatuses :
            DispatchSkew(xff, peer, status)
    \/ \E d \in ClockSteps : Tick(d)
    \/ \E d \in ClockSteps : ClockBack(d)

\* the middleware around any handler, the wall clock going forth and back
SpecSkew == Init /\ [][NextSkew]_vars

----------------------------------------------------------------------------
(* Properties of minting *)

\* C11: mint-then-verify round trip. In every reachable state, the raw key of
\* every 201 response of POST /api-keys has its credential in the store, under
\* the display name of that response; while that credential is active,
\* verify_api_key accepts the raw key and returns that credential, it is
\* active right after the mint, and a POST /jokes presenting it is let through
\* under that credential.
C11_MintThenVerify ==
    /\ \A m \in minted :
        LET rows == Matching(store, m.api_key)
            r == verify_api_key(m.api_key, store)
        IN  /\ Cardinality(rows) = 1
            /\ \A i \in rows :
                  /\ store[i].name = m.name
                  /\ store[i].is_active => (r.ok /\ r.key_id = store[i].id)
                  /\ (out.endpoint = "POST /jokes" /\ out.presented = m.api_key
                        /\ store[i].is_active) =>
                        (out.status \in {201, 409} /\ out.key_id = store[i].id)
    /\ (out.endpoint = "POST /api-keys" /\ out.status = 201) =>
        /\ [api_key |-> out.api_key, name |-> out.name] \in minted
        /\ verify_api_key(out.api_key, store).ok

\* C11 witness: the key of the second mint was presented after the first
\* credential was deactivated, and let through as the second credential
C11_Witness ==
    /\ out.endpoint = "POST /jokes"
    /\ out.status = 201
    /\ out.key_id = 2
    /\ ~store[1].is_active
    /\ store[1].name # store[2].name
    /\ [api_key |-> out.presented, name |-> store[2].name] \in minted

\* C12: the store holds fingerprints only. Every stored key_hash is the hash
\* of a raw key a mint returned, no stored key_hash or name is a raw key, and
\* a raw key is in a response only as the body of the 201 of the mint that
\* stored its hash.
C12_OnlyFingerprints ==
    /\ \A i \in 1..Len(store) :
          /\ \E r \in issued : store[i].key_hash = hash_api_key(r)
          /\ store[i].key_hash \notin RawKeys
          /\ store[i].name \notin RawKeys
    /\ out.detail \notin RawKeys
    /\ out.api_key # None =>
          /\ out.endpoint = "POST /api-keys"
          /\ out.status = 201
          /\ out.api_key \in issued
          /\ store[Len(store)].key_hash = hash_api_key(out.api_key)

\* C12 witness: the second mint answered with its raw key
C12_Witness ==
    /\ Len(store) = 2
    /\ out.status = 201
    /\ out.api_key \in RawKeys
    /\ store[2].key_hash = hash_api_key(out.api_key)

----------------------------------------------------------------------------
(* Properties of the instrumentation *)

\* the last request left dispatch with a response
Returned == out.entered # None /\ out.raised = None

\* C13: correlation header. Every response that leaves dispatch, whatever its
\* status, carries an X-Request-ID header whose value is the identifier
\* generated for that request at entry and written in the log record of that
\* request; no request still in flight carries that identifier.
C13_RequestIdHeader ==
    Returned =>
        /\ out.header = out.entered
        /\ out.logged = 1
        /\ out.request_id = out.entered
        /\ out.header \notin LiveIds

\* C13 witness: a 422 left dispatch with its own identifier while a request
\* that entered before it was still in flight
C13_Witness ==
    /\ Returned
    /\ out.status = 422
    /\ out.header = "uuid-2"
    /\ "uuid-1" \in LiveIds

\* C14: one log record per request. A request that left dispatch with a
\* response caused exactly one log record, the critical records of the alerts
\* that fired on it included.
C14_OneRecordPerRequest ==
    Returned => out.logged + Len(out.alerts) = 1

\* C15: no request is lost to the log. A request that left dispatch, with a
\* response or with the exception of its handler or of its cancellation, had
\* its log record emitted.
C15_LoggedOnEveryExit ==
    out.entered # None => out.logged = 1

\* what create_joke answers to a request presenting `presented` with the joke
\* `text`, from the credential store and the jokes alone
JokeVerdict(presented, db, js, text) ==
    LET auth == verify_api_key(presented, db)
    IN  IF ~auth.ok
        THEN [raised |-> auth.raised, status |-> auth.status, detail |-> auth.detail]
        ELSE IF text \in js
        THEN [raised |-> None, status |-> 409, detail |-> "This joke already exists."]
        ELSE [raised |-> None, status |-> 201, detail |-> None]

\* C16: detection is advisory. In every step, the status and body of the
\* response of a request are the ones its handler produces from the
\* request, the credential store, the admin secret and the jokes: the same
\* in every tracker state, whether or not an alert fires on the request.
C16_Advisory ==
    [][ /\ out'.endpoint = "POST /jokes" =>
            \E text \in Texts :
                LET v == JokeVerdict(out'.presented, store, jokes, text)
                IN  /\ out'.raised = v.raised
                    /\ out'.status = v.status
                    /\ out'.detail = v.detail
                    /\ out'.api_key = None
                    /\ jokes' = IF v.status = 201 THEN jokes \cup {text} ELSE jokes
        /\ out'.endpoint = "POST /api-keys" =>
            LET gate == verify_admin_secret(out'.presented, adminSecret)
            IN  IF gate.ok
                THEN /\ out'.status = 201
                     /\ out'.raised = None
                     /\ {out'.api_key} = issued' \ issued
                ELSE /\ out'.raised = gate.raised
                     /\ out'.status = gate.status
                     /\ out'.detail = gate.detail
                     /\ out'.api_key = None
      ]_vars

\* C16 witness: a correct key was let through from a source that is over the
\* per-source threshold
C16_Witness ==
    /\ out.endpoint = "POST /jokes"
    /\ out.status = 201
    /\ out.client_ip \in DOMAIN failures
    /\ BruteForce(failures[out.client_ip])

\* the requests of source ip whose 401/403 response is waiting for dispatch
\* to resume
Pending(ip) ==
    Cardinality({r \in inflight : /\ r.pc = "returned"
                                  /\ TracksFailure(r.status)
                                  /\ ClientIp(r.req.xff, r.req.peer) = ip})

\* C17: no lost update. With requests overlapping and all failures within one
\* window, the sequence of every source holds exactly one timestamp for each
\* 401/403 response produced for it, less those whose dispatch has not
\* resumed yet; the record call that makes the count T_ip raises one
\* brute-force alert carrying that count.
C17_NoLostUpdate ==
    /\ DOMAIN failures \subseteq DOMAIN answered
    /\ \A ip \in DOMAIN answered :
          (IF ip \in DOMAIN failures THEN Len(failures[ip]) ELSE 0) + Pending(ip)
              = answered[ip]
    /\ (out.tracked = 1 /\ Len(failures[out.client_ip]) = AUTH_FAILURE_THRESHOLD_IP) =>
          /\ Len(BruteAlerts) = 1
          /\ BruteAlerts[1].failure_count = answered[out.client_ip] - Pending(out.client_ip)

\* C17 witness: the tenth failure of a source was recorded while two other
\* requests were in flight, one of them a failure of the same source not yet
\* recorded
C17_Witness ==
    /\ out.tracked = 1
    /\ Len(failures[out.client_ip]) = AUTH_FAILURE_THRESHOLD_IP
    /\ Cardinality(inflight) = MaxInflight
    /\ Pending(out.client_ip) = 1
    /\ Len(BruteAlerts) = 1

\* C18: no alert suppression. After every record call for source s: if the
\* record calls made for s within the window of this call number T_ip or more,
\* the call emitted a brute-force alert; if the record calls made for all
\* sources within that window number T_global or more, it emitted a spray
\* alert; whatever calls alerted before.
C18_NoSuppression ==
    out.tracked = 1 =>
        /\ RecordedAfter(out.client_ip, LastCutoff) >= AUTH_FAILURE_THRESHOLD_IP =>
              Len(BruteAlerts) = 1
        /\ SumOver(RecordedAfter, DOMAIN hist, LastCutoff) >= AUTH_FAILURE_THRESHOLD_GLOBAL =>
              Len(SprayAlerts) = 1

\* C18 witness: the twenty-first failure in one window, the eleventh of its
\* source, emitted both alerts again
C18_Witness ==
    /\ out.tracked = 1
    /\ RecordedAfter(out.client_ip, LastCutoff) = AUTH_FAILURE_THRESHOLD_IP + 1
    /\ SumOver(RecordedAfter, DOMAIN hist, LastCutoff) = AUTH_FAILURE_THRESHOLD_GLOBAL + 1
    /\ Len(BruteAlerts) = 1
    /\ Len(SprayAlerts) = 1

\* the four classes of a status code
ClassOf(status) ==
    IF status \in {401, 403} THEN "auth-failure"
    ELSE IF status >= 500 THEN "server-error"
    ELSE IF status >= 400 THEN "client-error"
    ELSE "normal-completion"

\* C19: event classification. The event_type of the log record of a request
\* is "auth_failure" for 401 and 403 and "server_error" for 500 and more, and
\* it differs from the event_type of every status of another class.
C19_Classification ==
    out.logged = 1 =>
        /\ ClassOf(out.status) = "auth-failure" => out.event_type = "auth_failure"
        /\ ClassOf(out.status) = "server-error" => out.event_type = "server_error"
        /\ \A s \in Statuses :
              ClassOf(s) # ClassOf(out.status) =>
                  Classify(s).event_type # out.event_type

\* the first value of a comma-separated X-Forwarded-For list
FirstValue(xff) == IF xff = "10.0.0.1, 10.0.0.9" THEN "10.0.0.1" ELSE xff

\* C20: source address. The source of a request is the first value of one of
\* the forwarded-for headers, or a transport peer address, or "unknown".
C20_SourceAddress ==
    out.client_ip # None =>
        out.client_ip \in {FirstValue(xff) : xff \in ForwardedFor \ {None}}
                              \cup (Peers \ {None}) \cup {"unknown"}

----------------------------------------------------------------------------
(* Properties of the tracker under clock steps and across sources *)

\* C21: non-monotonic clock. With clock readings that may decrease between
\* record calls, every record call completes (the request leaves dispatch
\* with its 401/403 response and no exception), the timestamp the call
\* appended is the last of the source's sequence after the call, and the
\* sequence holds at least one timestamp.
C21_ClockGoesBack ==
    out.tracked = 1 =>
        /\ out.raised = None
        /\ out.status \in {401, 403}
        /\ Len(failures[out.client_ip]) >= 1
        /\ failures[out.client_ip][Len(failures[out.client_ip])] = clock

\* C21 witness: a record call was made after the clock went back by the whole
\* window: the source holds a timestamp W ahead of the reading of this call
C21_Witness ==
    /\ out.tracked = 1
    /\ \E i \in 1..Len(failures[out.client_ip]) :
          failures[out.client_ip][i] >= clock + AUTH_FAILURE_WINDOW
    /\ failures[out.client_ip][Len(failures[out.client_ip])] = clock

\* C22: window boundary. After a record call for s at time now, the sequence
\* of s holds every timestamp recorded for s at now - W or later: a failure
\* recorded exactly W seconds earlier is kept.
C22_WindowBoundary ==
    out.tracked = 1 =>
        StoredSince(out.client_ip, LastCutoff) = RecordedSince(out.client_ip, LastCutoff)

\* C23: per-source isolation. In every step, every source known before the
\* step is known after it, and the sequence of every source other than the
\* one a record call of the step was made for is the same before and after.
C23_Isolation ==
    [][ \A ip \in DOMAIN failures :
            /\ ip \in DOMAIN failures'
            /\ (out'.tracked = 0 \/ ip # out'.client_ip) =>
                  failures'[ip] = failures[ip]
      ]_vars

\* C23 witness: after a record call, another source is still known with the
\* same timestamps, all of them expired
C23_Witness ==
    /\ out.tracked = 1
    /\ \E ip \in DOMAIN failures :
          /\ ip # out.client_ip
          /\ Len(failures[ip]) > 0
          /\ failures[ip] = hist[ip]
          /\ \A i \in 1..Len(failures[ip]) : failures[ip][i] <= LastCutoff

\* C24: a success does not reset the count. In every step, a request that
\* leaves dispatch with a status other than 401 and 403 leaves the tracker as
\* it was; and when such a request of source s, which has T_ip - 1 failures
\* stored, is followed at the same clock reading by a failure of s, that
\* failure raises the brute-force alert with failure_count T_ip.
C24_SuccessKeepsCount ==
    [][ /\ (out'.entered # None /\ out'.status \notin {401, 403}) =>
              (failures' = failures /\ out'.tracked = 0)
        /\ ( /\ out.entered # None
             /\ out.status \notin {401, 403}
             /\ out.client_ip \in DOMAIN failures
             /\ Len(failures[out.client_ip]) = AUTH_FAILURE_THRESHOLD_IP - 1
             /\ \A i \in 1..Len(failures[out.client_ip]) :
                   failures[out.client_ip][i] > LastCutoff
             /\ out'.tracked = 1
             /\ out'.client_ip = out.client_ip ) =>
              /\ Len(out'.alerts) >= 1
              /\ out'.alerts[1].event_type = "brute_force_detected"
              /\ out'.alerts[1].failure_count = AUTH_FAILURE_THRESHOLD_IP
      ]_vars

\* C24 witness: a request of a source with T_ip - 1 failures in the window,
\* some of them recorded at an earlier clock reading, was answered 200 and
\* the failures are still stored
C24_Witness ==
    /\ out.entered # None
    /\ out.status = 200
    /\ out.client_ip \in DOMAIN failures
    /\ Len(failures[out.client_ip]) = AUTH_FAILURE_THRESHOLD_IP - 1
    /\ failures[out.client_ip][1] < clock
    /\ failures[out.client_ip][1] > LastCutoff

====
